---- MODULE Spec2Model ----
(***************************************************************************)
(* A model of scripts/pdf_summary_annotator.py: the frequency-based        *)
(* extractive summariser (split_sentences, tokenize_words, score_sentences,*)
(* top_sentences, top_keywords, build_summary), the note-box layout        *)
(* (calculate_note_box, render_annotation_overlay) and the annotate_pdf    *)
(* pipeline.                                                               *)
(*                                                                         *)
(* A text is a sequence of one-character strings; a word (a token of       *)
(* tokenize_words) is a string.  Lengths in points are integers.           *)
(***************************************************************************)
EXTENDS Integers, Sequences, FiniteSets, TLC

VARIABLES
    pc,                 \* position of the call or run being modelled
    words,              \* top_keywords: the word list
    limit,              \* top_keywords / top_sentences: the limit
    keywords,           \* top_keywords: the returned list
    sentences,          \* top_sentences: the sentence list
    word_scores,        \* top_sentences: the frequency table (a Counter)
    selected,           \* top_sentences: the returned list
    page_texts,         \* build_summary / annotate_pdf: the page texts
    summary_sentences,  \* build_summary: limit of the overall summary
    keyword_count,      \* build_summary: limit of the key points
    summary,            \* build_summary: the returned Summary
    page_width,         \* calculate_note_box / render_annotation_overlay
    page_height,
    box_width,
    box_height,
    margin,             \* calculate_note_box: the margin
    position,           \* the corner anchor (note_position in annotate_pdf)
    note_box,           \* calculate_note_box: the returned (x, y)
    wrapped,            \* render_annotation_overlay: fill(note_body).splitlines()
    overlay,            \* render_annotation_overlay: what was drawn
    reader_pages,       \* annotate_pdf: the input document's pages
    summary_json_path,  \* annotate_pdf: "none" or a path
    note_width,         \* annotate_pdf: requested box size
    note_height,
    page_index,         \* annotate_pdf: the loop index
    events,             \* annotate_pdf: what the run has done so far, in order
    writer_pages,       \* annotate_pdf: pages added to the PdfWriter
    output_pdf          \* annotate_pdf: the written output, or "none"

kwVars == <<words, keywords>>
tsVars == <<sentences, word_scores, selected>>
sumVars == <<page_texts, summary_sentences, keyword_count, summary>>
boxVars == <<page_width, page_height, box_width, box_height, margin, note_box>>
ovVars == <<wrapped, overlay>>
pdfVars == <<reader_pages, summary_json_path, note_width, note_height,
             page_index, events, writer_pages, output_pdf>>
vars == <<pc, limit, position, kwVars, tsVars, sumVars, boxVars, ovVars, pdfVars>>

(***************************************************************************)
(* Bounds of the model.                                                    *)
(***************************************************************************)
MaxWords == 4
MaxLimit == 2
MaxSentences == 3
MaxCount == 2
MaxPages == 2
MaxDim == 4
MaxMargin == 2
MaxBoxHeight == 50
MaxLines == 3

(***************************************************************************)
(* Defaults of the command line.                                           *)
(***************************************************************************)
DefaultSummarySentences == 5

DefaultKeywords == 10

(***************************************************************************)
(* Generic helpers.                                                        *)
(***************************************************************************)
Min(a, b) == IF a <= b THEN a ELSE b

Max(a, b) == IF a >= b THEN a ELSE b

Range(s) == {s[i] : i \in DOMAIN s}

Take(s, n) == SubSeq(s, 1, Min(Max(n, 0), Len(s)))

Drop(s, n) == SubSeq(s, Min(Max(n, 0), Len(s)) + 1, Len(s))

\* Python's s[:n]: a negative n counts from the end.
SliceTo(s, n) == IF n >= 0 THEN Take(s, n) ELSE Take(s, Len(s) + n)

SeqsUpTo(S, n) == UNION {[1..k -> S] : k \in 0..n}

(***************************************************************************)
(* Character classes of the regular expressions.                           *)
(***************************************************************************)
Whitespace == {" ", "\n", "\t", "\r"}

Terminal == {".", "!", "?"}

LowerLetters ==
    <<"a", "b", "c", "d", "e", "f", "g", "h", "i", "j", "k", "l", "m",
      "n", "o", "p", "q", "r", "s", "t", "u", "v", "w", "x", "y", "z">>

UpperLetters ==
    <<"A", "B", "C", "D", "E", "F", "G", "H", "I", "J", "K", "L", "M",
      "N", "O", "P", "Q", "R", "S", "T", "U", "V", "W", "X", "Y", "Z">>

\* str.lower(), as a table on the upper-case letters.
LowerOf ==
    [c \in Range(UpperLetters) |->
        LowerLetters[CHOOSE i \in DOMAIN UpperLetters : UpperLetters[i] = c]]

\* str.lower() on one character.
lower(c) == IF c \in DOMAIN LowerOf THEN LowerOf[c] ELSE c

\* [A-Za-z'] matched against lower-cased text.
WordChars == Range(LowerLetters) \cup {"'"}

IsWordChar(c) == c \in WordChars

STOPWORDS ==
    {"a", "an", "and", "are", "as", "at", "be", "but", "by", "for", "from",
     "has", "have", "if", "in", "into", "is", "it", "its", "no", "not", "of",
     "on", "or", "such", "that", "the", "their", "then", "there", "these",
     "they", "this", "to", "was", "were", "will", "with", "we", "you", "your"}

(***************************************************************************)
(* split_sentences.                                                        *)
(***************************************************************************)
RECURSIVE lstrip(_)
lstrip(text) ==
    IF text # <<>> /\ Head(text) \in Whitespace THEN lstrip(Tail(text)) ELSE text

RECURSIVE rstrip(_)
rstrip(text) ==
    IF text # <<>> /\ text[Len(text)] \in Whitespace
    THEN rstrip(SubSeq(text, 1, Len(text) - 1))
    ELSE text

strip(text) == rstrip(lstrip(text))

\* re.sub(r"\s+", " ", text): every maximal whitespace run becomes one space.
RECURSIVE CollapseWhitespace(_)
CollapseWhitespace(text) ==
    IF text = <<>> THEN <<>>
    ELSE IF Head(text) \in Whitespace
         THEN <<" ">> \o CollapseWhitespace(lstrip(text))
         ELSE <<Head(text)>> \o CollapseWhitespace(Tail(text))

\* re.split(r"(?<=[.!?])\s+", text): a whitespace run that follows a terminal
\* separates two pieces.
RECURSIVE SplitAfterTerminal(_)
SplitAfterTerminal(text) ==
    LET cuts == {i \in 2..Len(text) :
                    text[i] \in Whitespace /\ text[i - 1] \in Terminal}
    IN  IF cuts = {} THEN <<text>>
        ELSE LET i == CHOOSE j \in cuts : \A k \in cuts : j <= k
             IN  <<SubSeq(text, 1, i - 1)>>
                 \o SplitAfterTerminal(lstrip(SubSeq(text, i, Len(text))))

\* Mutant: no early return for an empty text (re.split("") is [""]).
split_sentences_unchecked(text) == SplitAfterTerminal(CollapseWhitespace(strip(text)))

split_sentences(text) ==
    LET cleaned == CollapseWhitespace(strip(text))
    IN  IF cleaned = <<>> THEN <<>> ELSE SplitAfterTerminal(cleaned)

(***************************************************************************)
(* tokenize_words.                                                         *)
(***************************************************************************)
RECURSIVE Join(_)
Join(chars) == IF chars = <<>> THEN "" ELSE Head(chars) \o Join(Tail(chars))

\* Length of the maximal run of word characters at the start of text.
RECURSIVE RunLength(_)
RunLength(text) ==
    IF text # <<>> /\ IsWordChar(Head(text)) THEN 1 + RunLength(Tail(text)) ELSE 0

\* re.findall(r"[A-Za-z']{2,}", text): the maximal runs of length >= 2.
RECURSIVE FindAllWords(_)
FindAllWords(text) ==
    IF text = <<>> THEN <<>>
    ELSE LET n == RunLength(text)
         IN  IF n = 0 THEN FindAllWords(Tail(text))
             ELSE IF n = 1 THEN FindAllWords(Drop(text, 1))
             ELSE <<Join(Take(text, n))>> \o FindAllWords(Drop(text, n))

tokenize_words(text) ==
    SelectSeq(FindAllWords([i \in DOMAIN text |-> lower(text[i])]),
              LAMBDA word : word \notin STOPWORDS)

(***************************************************************************)
(* collections.Counter: the keys in first-occurrence order and the counts. *)
(***************************************************************************)
RECURSIVE FirstOccurrences(_)
FirstOccurrences(ws) ==
    IF ws = <<>> THEN <<>>
    ELSE LET front == FirstOccurrences(SubSeq(ws, 1, Len(ws) - 1))
             w == ws[Len(ws)]
         IN  IF w \in Range(front) THEN front ELSE Append(front, w)

Counter(ws) ==
    [keys |-> FirstOccurrences(ws),
     count |-> [w \in Range(ws) |-> Cardinality({i \in DOMAIN ws : ws[i] = w})]]

\* counter[word]: a missing key counts 0.
CountOf(counter, word) ==
    IF word \in DOMAIN counter.count THEN counter.count[word] ELSE 0

\* A sort key: the rational n / d with d > 0 (a count c is c / 1; a sentence
\* score is sum / len, which float division rounds to equal values exactly
\* when the rationals are equal, for numbers this small).
KeyGeq(a, b) == a.n * b.d >= b.n * a.d

\* Insert item x = <<value, key>> into a list sorted by descending key, after
\* every element whose key is >= x's (a sort with reverse=True is stable).
RECURSIVE InsertDesc(_, _)
InsertDesc(x, sorted) ==
    IF sorted = <<>> THEN <<x>>
    ELSE IF KeyGeq(Head(sorted)[2], x[2])
         THEN <<Head(sorted)>> \o InsertDesc(x, Tail(sorted))
         ELSE <<x>> \o sorted

RECURSIVE StableSortDesc(_)
StableSortDesc(items) ==
    IF items = <<>> THEN <<>>
    ELSE InsertDesc(items[Len(items)],
                    StableSortDesc(SubSeq(items, 1, Len(items) - 1)))

\* Counter.most_common(n) = heapq.nlargest(n, items, key=count): the first n
\* of the (word, count) items sorted stably by descending count, and nothing
\* for n <= 0.
most_common(counter, n) ==
    LET items == [i \in DOMAIN counter.keys |->
                    <<counter.keys[i], [n |-> counter.count[counter.keys[i]], d |-> 1]>>]
    IN  IF n <= 0 THEN <<>> ELSE Take(StableSortDesc(items), n)

(***************************************************************************)
(* top_keywords.                                                           *)
(***************************************************************************)
\* Mutant: the distinct words in first-occurrence order, never ranked.
top_keywords_unranked(ws, lim) == Take(FirstOccurrences(ws), lim)

top_keywords(ws, lim) ==
    LET counts == Counter(ws)
        common == most_common(counts, lim)
    IN  [i \in DOMAIN common |-> common[i][1]]

(***************************************************************************)
(* score_sentences and top_sentences.                                      *)
(***************************************************************************)
RECURSIVE SumCounts(_, _)
SumCounts(counter, ws) ==
    IF ws = <<>> THEN 0 ELSE CountOf(counter, Head(ws)) + SumCounts(counter, Tail(ws))

\* The (sentence, score) pairs, in input order; 0.0 is the key 0 / 1.
score_sentences(sents, scores) ==
    [i \in DOMAIN sents |->
        LET ws == tokenize_words(sents[i])
        IN  IF ws = <<>> THEN <<sents[i], [n |-> 0, d |-> 1]>>
            ELSE <<sents[i], [n |-> SumCounts(scores, ws), d |-> Len(ws)]>>]

top_sentences(sents, scores, lim) ==
    LET scored == StableSortDesc(score_sentences(sents, scores))
        cut == SliceTo(scored, lim)
    IN  [i \in DOMAIN cut |-> cut[i][1]]

(***************************************************************************)
(* build_summary.                                                          *)
(***************************************************************************)
NoExtractableText ==
    <<"(", "N", "o", " ", "e", "x", "t", "r", "a", "c", "t", "a", "b", "l", "e",
      " ", "t", "e", "x", "t", ")">>

\* "\n".join(page_texts)
RECURSIVE JoinLines(_)
JoinLines(texts) ==
    IF texts = <<>> THEN <<>>
    ELSE IF Len(texts) = 1 THEN texts[1]
    ELSE texts[1] \o <<"\n">> \o JoinLines(Tail(texts))

PageKeywordCap == 4

\* Mutant: the page's sentences scored with the document-wide table.
page_note_global(texts, index, kc) ==
    LET text == texts[index]
        page_sentences == split_sentences(text)
        page_words == tokenize_words(text)
        doc_scores == Counter(tokenize_words(JoinLines(texts)))
        page_summary == top_sentences(page_sentences, doc_scores, 1)
        page_keywords == top_keywords(page_words, Min(PageKeywordCap, kc))
    IN  [page |-> index,
         summary |-> IF page_summary # <<>> THEN page_summary[1]
                     ELSE NoExtractableText,
         keywords |-> page_keywords]

\* One iteration of the loop: the note of page `index`.
page_note(texts, index, kc) ==
    LET text == texts[index]
        page_sentences == split_sentences(text)
        page_words == tokenize_words(text)
        page_scores == Counter(page_words)
        page_summary == top_sentences(page_sentences, page_scores, 1)
        page_keywords == top_keywords(page_words, Min(PageKeywordCap, kc))
    IN  [page |-> index,
         summary |-> IF page_summary # <<>> THEN page_summary[1]
                     ELSE NoExtractableText,
         keywords |-> page_keywords]

\* Mutant: pages without sentences get no note.
page_notes_skipping_empty(texts, kc) ==
    SelectSeq([index \in DOMAIN texts |-> page_note(texts, index, kc)],
              LAMBDA note : split_sentences(texts[note.page]) # <<>>)

\* The loop over enumerate(page_texts, start=1).
page_notes_of(texts, kc) == [index \in DOMAIN texts |-> page_note(texts, index, kc)]

build_summary(texts, ss, kc) ==
    LET full_text == JoinLines(texts)
        doc_sentences == split_sentences(full_text)
        full_words == tokenize_words(full_text)
        doc_scores == Counter(full_words)
    IN  [overall_summary |-> top_sentences(doc_sentences, doc_scores, ss),
         key_points |-> top_keywords(full_words, kc),
         page_notes |-> page_notes_of(texts, kc)]

(***************************************************************************)
(* calculate_note_box.                                                     *)
(***************************************************************************)
\* Mutant: the right-hand corners forget the box's width.
calculate_note_box_without_width(pw, ph, bw, bh, m, pos) ==
    IF pos = "top-left" THEN <<m, ph - bh - m>>
    ELSE IF pos = "top-right" THEN <<pw - m, ph - bh - m>>
    ELSE IF pos = "bottom-left" THEN <<m, m>>
    ELSE IF pos = "bottom-right" THEN <<pw - m, m>>
    ELSE <<pw - m, ph - bh - m>>

calculate_note_box(pw, ph, bw, bh, m, pos) ==
    IF pos = "top-left" THEN <<m, ph - bh - m>>
    ELSE IF pos = "top-right" THEN <<pw - bw - m, ph - bh - m>>
    ELSE IF pos = "bottom-left" THEN <<m, m>>
    ELSE IF pos = "bottom-right" THEN <<pw - bw - m, m>>
    ELSE <<pw - bw - m, ph - bh - m>>

(***************************************************************************)
(* render_annotation_overlay.                                              *)
(***************************************************************************)
NoteMargin == 18

TextInset == 6

TitleDrop == 14

BodyDrop == 28

\* setFont("Helvetica", 7.5) sets the leading to 1.2 * 7.5 = 9 points.
BodyLeading == 9

\* Mutant: the loop never breaks.
EmitLinesUnclipped(lines, ty, floor) ==
    [i \in DOMAIN lines |-> [text |-> lines[i], y |-> ty - (i - 1) * BodyLeading]]

\* The loop over wrapped.splitlines(): text.getY() is ty, and textLine draws
\* the line at ty and moves down by the leading.
RECURSIVE EmitLines(_, _, _)
EmitLines(lines, ty, floor) ==
    IF lines = <<>> \/ ty < floor THEN <<>>
    ELSE <<[text |-> Head(lines), y |-> ty]>>
         \o EmitLines(Tail(lines), ty - BodyLeading, floor)

\* What the canvas received: the rectangle, the title and the body lines.
\* `lines` is fill(note_body, width=32).splitlines().
render_annotation_overlay(pw, ph, note_title, lines, pos, bw, bh) ==
    LET xy == calculate_note_box(pw, ph, bw, bh, NoteMargin, pos)
        x == xy[1]
        y == xy[2]
    IN  [pagesize |-> <<pw, ph>>,
         rect |-> [x |-> x, y |-> y, width |-> bw, height |-> bh],
         title |-> [x |-> x + TextInset, y |-> y + bh - TitleDrop, text |-> note_title],
         body |-> EmitLines(lines, y + bh - BodyDrop, y + TextInset)]

(***************************************************************************)
(* annotate_pdf: the note overlay of one page.                             *)
(***************************************************************************)
\* min(note_width, page_width * 0.4); page widths are multiples of 10.
clamp_box_width(nw, pw) == Min(nw, (pw * 4) \div 10)

\* min(note_height, page_height * 0.3); page heights are multiples of 10.
clamp_box_height(nh, ph) == Min(nh, (ph * 3) \div 10)

\* The title, the body and the geometry annotate_pdf hands to
\* render_annotation_overlay for page `index`, and where the box lands.  The
\* title f"Notes (Page {index})" is kept in its three parts; the body is the
\* note's summary and the keyword text.
page_overlay(page, index, note, pos, nw, nh) ==
    LET bw == clamp_box_width(nw, page.width)
        bh == clamp_box_height(nh, page.height)
        xy == calculate_note_box(page.width, page.height, bw, bh, NoteMargin, pos)
    IN  [title |-> <<"Notes (Page ", index, ")">>,
         body |-> [summary |-> note.summary,
                   keyword_text |-> IF note.keywords # <<>> THEN note.keywords
                                    ELSE <<"No keywords">>],
         pagesize |-> <<page.width, page.height>>,
         rect |-> [x |-> xy[1], y |-> xy[2], width |-> bw, height |-> bh]]

(***************************************************************************)
(* Inputs of the checks.                                                   *)
(***************************************************************************)
Limits == (0 - 1)..MaxLimit

Vocabulary == {"cat", "dog", "elk"}

TextCat == <<"c", "a", "t", ".">>

TextDogDog == <<"d", "o", "g", " ", "d", "o", "g">>

TextItIs == <<"I", "t", " ", "i", "s", ".">>

TextCatDog == <<"c", "a", "t", " ", "d", "o", "g", "?">>

TextBlank == <<" ", "\n">>

TextCatThenDog == <<"c", "a", "t", ".", " ", "d", "o", "g">>

TextDog == <<"d", "o", "g">>

TextItIsCat == <<"I", "t", " ", "i", "s", ".", " ", "c", "a", "t", "!">>

TextCatDogDog == <<"c", "a", "t", " ", "d", "o", "g", ".", " ", " ", "d", "o", "g">>

TextDogDogCatCat ==
    <<"D", "o", "g", " ", "d", "o", "g", " ", "c", "a", "t", "?", " ", "c", "a", "t">>

TextEg == <<"e", ".", "g", ".", " ", "x", "1">>

\* The four corner anchors and a value that is none of them.
Positions == {"top-left", "top-right", "bottom-left", "bottom-right", "center"}

\* Page sizes (width, height) in points: a usual page and a very small one.
PageSizes == {<<600, 800>>, <<40, 60>>}

\* Box widths handed to render_annotation_overlay.
OverlayBoxWidths == {0, 180}

\* Requested note sizes (width, height): the default and one larger than any page.
NoteSizes == {<<180, 140>>, <<1000, 1000>>}

\* What the extraction backend does with a page: returns a text (possibly
\* empty), returns None, or raises.
ExtractOutcomes ==
    {[kind |-> "text", text |-> <<>>],
     [kind |-> "text", text |-> <<"c", "a", "t", ".", " ", "d", "o", "g">>],
     [kind |-> "none", text |-> <<>>],
     [kind |-> "error", text |-> <<>>]}

\* The pages of an input document.
InputPages ==
    {[width |-> size[1], height |-> size[2], extract |-> e] :
        size \in PageSizes, e \in ExtractOutcomes}

\* Sentences handed to top_sentences: content words, stop words only, mixed.
SentencePool == {TextCat, TextDogDog, TextItIs, TextCatDog}

\* Frequency tables handed to top_sentences.
ScoreTables ==
    {[keys |-> <<"cat", "dog">>, count |-> c] : c \in [{"cat", "dog"} -> 0..MaxCount]}

\* Page texts: empty, whitespace only, stop words only, several sentences with
\* tied and with different scores, upper case, runs of spaces, one-letter
\* runs and digits, and a page that reads like the sentinel.
PageTextPool ==
    {<<>>, TextBlank, TextItIs, TextCatThenDog, TextDog, TextItIsCat,
     TextCatDogDog, TextDogDogCatCat, TextEg, NoExtractableText}

(***************************************************************************)
(* Idle values of the variables a specification does not use.              *)
(***************************************************************************)
KwIdle == words = <<>> /\ keywords = <<>>

TsIdle == sentences = <<>> /\ word_scores = [keys |-> <<>>, count |-> <<>>] /\ selected = <<>>

NoSummary == [overall_summary |-> <<>>, key_points |-> <<>>, page_notes |-> <<>>]

SumIdle ==
    /\ page_texts = <<>>
    /\ summary_sentences = 0
    /\ keyword_count = 0
    /\ summary = NoSummary

BoxIdle ==
    /\ page_width = 0
    /\ page_height = 0
    /\ box_width = 0
    /\ box_height = 0
    /\ margin = 0
    /\ note_box = <<0, 0>>

NoOverlay ==
    [pagesize |-> <<0, 0>>,
     rect |-> [x |-> 0, y |-> 0, width |-> 0, height |-> 0],
     title |-> [x |-> 0, y |-> 0, text |-> ""],
     body |-> <<>>]

OvIdle == wrapped = <<>> /\ overlay = NoOverlay

PdfIdle ==
    /\ reader_pages = <<>>
    /\ summary_json_path = "none"
    /\ note_width = 0
    /\ note_height = 0
    /\ page_index = 0
    /\ events = <<>>
    /\ writer_pages = <<>>
    /\ output_pdf = "none"

(***************************************************************************)
(* SpecKeywords: one call of top_keywords(words, limit).                   *)
(***************************************************************************)
InitKeywords ==
    /\ pc = "call"
    /\ words \in SeqsUpTo(Vocabulary, MaxWords)
    /\ limit \in Limits
    /\ keywords = <<>>
    /\ position = "top-right"
    /\ TsIdle /\ SumIdle /\ BoxIdle /\ OvIdle /\ PdfIdle

TopKeywords ==
    /\ pc = "call"
    /\ keywords' = top_keywords(words, limit)
    /\ pc' = "returned"
    /\ UNCHANGED <<words, limit, position, tsVars, sumVars, boxVars, ovVars, pdfVars>>

SpecKeywords == InitKeywords /\ [][TopKeywords]_vars

(***************************************************************************)
(* SpecSentences: one call of top_sentences(sentences, word_scores, limit).*)
(***************************************************************************)
InitSentences ==
    /\ pc = "call"
    /\ sentences \in SeqsUpTo(SentencePool, MaxSentences)
    /\ word_scores \in ScoreTables
    /\ limit \in Limits
    /\ selected = <<>>
    /\ position = "top-right"
    /\ KwIdle /\ SumIdle /\ BoxIdle /\ OvIdle /\ PdfIdle

TopSentences ==
    /\ pc = "call"
    /\ selected' = top_sentences(sentences, word_scores, limit)
    /\ pc' = "returned"
    /\ UNCHANGED <<sentences, word_scores, limit, position, kwVars, sumVars,
                   boxVars, ovVars, pdfVars>>

SpecSentences == InitSentences /\ [][TopSentences]_vars

(***************************************************************************)
(* SpecSummary: one call of build_summary(page_texts, summary_sentences,   *)
(* keyword_count).                                                         *)
(***************************************************************************)
InitSummary ==
    /\ pc = "call"
    /\ page_texts \in SeqsUpTo(PageTextPool, MaxPages)
    /\ summary_sentences \in Limits
    /\ keyword_count \in Limits
    /\ summary = NoSummary
    /\ limit = 0
    /\ position = "top-right"
    /\ KwIdle /\ TsIdle /\ BoxIdle /\ OvIdle /\ PdfIdle

BuildSummary ==
    /\ pc = "call"
    /\ summary' = build_summary(page_texts, summary_sentences, keyword_count)
    /\ pc' = "returned"
    /\ UNCHANGED <<page_texts, summary_sentences, keyword_count, limit, position,
                   kwVars, tsVars, boxVars, ovVars, pdfVars>>

SpecSummary == InitSummary /\ [][BuildSummary]_vars

(***************************************************************************)
(* Properties of build_summary (SpecSummary).                              *)
(***************************************************************************)
\* C1: build_summary returns one page note per input page, in page order:
\* page_notes is as long as page_texts and its i-th entry has page = i, for
\* every page list (empty pages included) and every pair of limits.
C1_OneNotePerPage ==
    pc = "returned" =>
        /\ Len(summary.page_notes) = Len(page_texts)
        /\ \A i \in DOMAIN summary.page_notes : summary.page_notes[i].page = i

C1_Witness ==
    /\ pc = "returned"
    /\ Len(page_texts) = 2
    /\ page_texts[1] = <<>>
    /\ page_texts[2] = TextCatThenDog
    /\ keyword_count < 0
    /\ summary.page_notes[2].page = 2

\* Number of occurrences of word w in the word list ws.
Occurrences(w, ws) == Cardinality({i \in DOMAIN ws : ws[i] = w})

\* Sum over the tokens of a sentence of their occurrences in ws.
RECURSIVE TotalOccurrences(_, _)
TotalOccurrences(tokens, ws) ==
    IF tokens = <<>> THEN 0
    ELSE Occurrences(Head(tokens), ws) + TotalOccurrences(Tail(tokens), ws)

\* Mean frequency of sentence a is at least that of sentence b, counting
\* occurrences in the word list ws (a sentence without content words has 0).
MeanGeq(a, b, ws) ==
    LET ta == tokenize_words(a)
        tb == tokenize_words(b)
    IN  TotalOccurrences(ta, ws) * Max(Len(tb), 1)
            >= TotalOccurrences(tb, ws) * Max(Len(ta), 1)

\* The note of page i is one of page i's own sentences, with the highest
\* score under page i's own word counts.
BestOwnSentence(i) ==
    LET own == split_sentences(page_texts[i])
        ws == tokenize_words(page_texts[i])
    IN  \E j \in DOMAIN own :
            /\ summary.page_notes[i].summary = own[j]
            /\ \A k \in DOMAIN own : MeanGeq(own[j], own[k], ws)

\* C4 (as amended): for every page i, the note summary is the sentinel when
\* split_sentences of page i's text is empty, and otherwise one of page i's
\* own sentences with the highest score under page i's own word counts.
C4_PageLocalBest ==
    pc = "returned" =>
        \A i \in DOMAIN page_texts :
            IF split_sentences(page_texts[i]) = <<>>
            THEN summary.page_notes[i].summary = NoExtractableText
            ELSE BestOwnSentence(i)

\* A page whose second sentence wins locally although the document-wide
\* counts (with the other page) favour its first sentence.
C4_Witness ==
    /\ pc = "returned"
    /\ page_texts = <<TextCatDogDog, TextItIsCat>>
    /\ summary.page_notes[1].summary = TextDog
    /\ summary.page_notes[2].summary = <<"c", "a", "t", "!">>

\* C4 (as claimed): as C4_PageLocalBest, and moreover the summary is the
\* sentinel exactly when the page has no sentence, and it is never a
\* sentence found only on another page.
C4_AsClaimed ==
    pc = "returned" =>
        \A i \in DOMAIN page_texts :
            LET own == split_sentences(page_texts[i])
                note == summary.page_notes[i]
            IN  /\ (note.summary = NoExtractableText) <=> (own = <<>>)
                /\ own # <<>> => BestOwnSentence(i)
                /\ (\E j \in DOMAIN page_texts :
                        note.summary \in Range(split_sentences(page_texts[j])))
                    => note.summary \in Range(own)

\* C5: on a page list whose texts are all empty, build_summary returns an
\* empty overall_summary, empty key_points and one note per page, each with
\* the sentinel summary and no keywords.
C5_AllEmptyPages ==
    (pc = "returned" /\ \A i \in DOMAIN page_texts : page_texts[i] = <<>>) =>
        /\ summary.overall_summary = <<>>
        /\ summary.key_points = <<>>
        /\ Len(summary.page_notes) = Len(page_texts)
        /\ \A i \in DOMAIN page_texts :
            /\ summary.page_notes[i].summary = NoExtractableText
            /\ summary.page_notes[i].keywords = <<>>

C5_Witness ==
    /\ pc = "returned"
    /\ Len(page_texts) = MaxPages
    /\ \A i \in DOMAIN page_texts : page_texts[i] = <<>>
    /\ summary_sentences > 0
    /\ keyword_count > 0
    /\ Len(summary.page_notes) = MaxPages

(***************************************************************************)
(* Properties of top_keywords (SpecKeywords).                              *)
(***************************************************************************)
FirstIndex(w, ws) == CHOOSE i \in DOMAIN ws : ws[i] = w /\ \A j \in 1..(i - 1) : ws[j] # w

\* The returned words are words of the list, pairwise distinct, by
\* descending count, equal counts in order of first occurrence.
RankedDistinct(kws, ws) ==
    /\ \A i \in DOMAIN kws : kws[i] \in Range(ws)
    /\ \A i, j \in DOMAIN kws :
        i < j =>
            /\ kws[i] # kws[j]
            /\ \/ Occurrences(kws[i], ws) > Occurrences(kws[j], ws)
               \/ /\ Occurrences(kws[i], ws) = Occurrences(kws[j], ws)
                  /\ FirstIndex(kws[i], ws) < FirstIndex(kws[j], ws)

\* C2 (as amended): top_keywords(words, k) returns at most
\* max(0, min(k, number of distinct words)) entries, pairwise distinct, by
\* descending count, equal counts in order of first occurrence.
C2_RankedKeywords ==
    pc = "returned" =>
        /\ Len(keywords) <= Max(0, Min(limit, Cardinality(Range(words))))
        /\ RankedDistinct(keywords, words)

\* Two words tie on the count and the later one of them is cut off.
C2_Witness ==
    /\ pc = "returned"
    /\ words = <<"dog", "cat", "elk", "cat">>
    /\ limit = 2
    /\ keywords = <<"cat", "dog">>

\* C2 (as claimed): at most min(k, number of distinct words) entries.
C2_AsClaimed ==
    pc = "returned" =>
        /\ Len(keywords) <= Min(limit, Cardinality(Range(words)))
        /\ RankedDistinct(keywords, words)

(***************************************************************************)
(* Properties of top_sentences (SpecSentences).                            *)
(***************************************************************************)
\* The orders of the sentence indices by descending score under word_scores,
\* equal scores in input order (there is exactly one).
RankedOrders ==
    LET n == Len(sentences)
        Score(i) == score_sentences(sentences, word_scores)[i][2]
    IN  {p \in Permutations(1..n) :
            \A i, j \in 1..n :
                i < j => \/ ~KeyGeq(Score(p[j]), Score(p[i]))
                         \/ (KeyGeq(Score(p[i]), Score(p[j])) /\ p[i] < p[j])}

\* C3: top_sentences returns the first `limit` texts of the sentences sorted
\* by descending score, equal scores in input order (all of them when limit
\* exceeds their number), so never more than `limit` of them.  A limit below
\* 0 is read here as 0, the reading most favourable to the code.
C3_AsClaimed ==
    pc = "returned" =>
        \E p \in RankedOrders :
            selected = [i \in 1..Min(Max(limit, 0), Len(sentences)) |-> sentences[p[i]]]

(***************************************************************************)
(* SpecBox: one call of calculate_note_box.                                *)
(***************************************************************************)
InitBox ==
    /\ pc = "call"
    /\ page_width \in 0..MaxDim
    /\ page_height \in 0..MaxDim
    /\ box_width \in 0..MaxDim
    /\ box_height \in 0..MaxDim
    /\ margin \in 0..MaxMargin
    /\ position \in Positions
    /\ note_box = <<0, 0>>
    /\ limit = 0
    /\ KwIdle /\ TsIdle /\ SumIdle /\ OvIdle /\ PdfIdle

CalculateNoteBox ==
    /\ pc = "call"
    /\ note_box' = calculate_note_box(page_width, page_height, box_width,
                                      box_height, margin, position)
    /\ pc' = "returned"
    /\ UNCHANGED <<page_width, page_height, box_width, box_height, margin,
                   position, limit, kwVars, tsVars, sumVars, ovVars, pdfVars>>

SpecBox == InitBox /\ [][CalculateNoteBox]_vars

\* The box of box_width x box_height placed at note_box lies on the page.
BoxWithinPage ==
    /\ 0 <= note_box[1]
    /\ note_box[1] + box_width <= page_width
    /\ 0 <= note_box[2]
    /\ note_box[2] + box_height <= page_height

\* C6 (as amended): for every position (recognised or not), every margin >= 0
\* and every box with box_width, box_height >= 0, box_width + margin <=
\* page_width and box_height + margin <= page_height, the box placed at the
\* returned (x, y) lies within the page.
C6_BoxWithinPage ==
    ( /\ pc = "returned"
      /\ margin >= 0
      /\ 0 <= box_width /\ box_width + margin <= page_width
      /\ 0 <= box_height /\ box_height + margin <= page_height ) => BoxWithinPage

C6_Witness ==
    /\ pc = "returned"
    /\ position = "center"
    /\ margin = 1
    /\ box_width = 2 /\ page_width = 4
    /\ box_height = 1 /\ page_height = 2
    /\ note_box = <<1, 0>>

\* C6 (as claimed): the same for every box with 0 <= box_width <= page_width
\* and 0 <= box_height <= page_height.
C6_AsClaimed ==
    ( /\ pc = "returned"
      /\ margin >= 0
      /\ 0 <= box_width /\ box_width <= page_width
      /\ 0 <= box_height /\ box_height <= page_height ) => BoxWithinPage

(***************************************************************************)
(* SpecOverlay: one call of render_annotation_overlay, whose wrapped body  *)
(* lines are numbered 1, 2, ...                                            *)
(***************************************************************************)
InitOverlay ==
    /\ pc = "call"
    /\ \E size \in PageSizes : page_width = size[1] /\ page_height = size[2]
    /\ box_width \in OverlayBoxWidths
    /\ box_height \in 0..MaxBoxHeight
    /\ position \in Positions
    /\ wrapped \in {[i \in 1..k |-> i] : k \in 0..MaxLines}
    /\ overlay = NoOverlay
    /\ margin = 0
    /\ note_box = <<0, 0>>
    /\ limit = 0
    /\ KwIdle /\ TsIdle /\ SumIdle /\ PdfIdle

RenderAnnotationOverlay ==
    /\ pc = "call"
    /\ overlay' = render_annotation_overlay(page_width, page_height, "Notes",
                                            wrapped, position, box_width, box_height)
    /\ pc' = "returned"
    /\ UNCHANGED <<wrapped, limit, position, kwVars, tsVars, sumVars, boxVars, pdfVars>>

SpecOverlay == InitOverlay /\ [][RenderAnnotationOverlay]_vars

\* Baseline of the i-th body line of a box whose lower edge is at y.
Baseline(y, i) == y + box_height - BodyDrop - (i - 1) * BodyLeading

\* C10: the body lines are emitted in order from baseline y + box_height - 28,
\* every emitted line has its baseline in [y + 6, y + box_height], the emitted
\* lines are a prefix of the wrapped lines, emission stops exactly at the
\* first line whose baseline would fall below y + 6, and the rest is dropped
\* without a marker (no line at all when the box is too short).
C10_BodyClipped ==
    pc = "returned" =>
        LET y == overlay.rect.y
            n == Len(overlay.body)
        IN  /\ n <= Len(wrapped)
            /\ \A i \in 1..n :
                /\ overlay.body[i].text = wrapped[i]
                /\ overlay.body[i].y = Baseline(y, i)
                /\ overlay.body[i].y >= y + TextInset
                /\ overlay.body[i].y <= y + box_height
            /\ n < Len(wrapped) => Baseline(y, n + 1) < y + TextInset
            /\ box_height < BodyDrop + TextInset => n = 0

\* Two of three wrapped lines fit; the third is dropped.
C10_Witness ==
    /\ pc = "returned"
    /\ Len(wrapped) = 3
    /\ box_height = 43
    /\ Len(overlay.body) = 2
    /\ overlay.body[2].y = overlay.rect.y + TextInset

(***************************************************************************)
(* SpecAnnotate: one run of annotate_pdf.                                  *)
(***************************************************************************)
InitAnnotate ==
    /\ pc = "extract"
    /\ reader_pages \in SeqsUpTo(InputPages, MaxPages)
    /\ summary_json_path \in {"none", "summary.json"}
    /\ summary_sentences = DefaultSummarySentences
    /\ keyword_count = DefaultKeywords
    /\ position \in Positions
    /\ \E size \in NoteSizes : note_width = size[1] /\ note_height = size[2]
    /\ page_texts = <<>>
    /\ summary = NoSummary
    /\ page_index = 1
    /\ events = <<>>
    /\ writer_pages = <<>>
    /\ output_pdf = <<>>
    /\ limit = 0
    /\ KwIdle /\ TsIdle /\ BoxIdle /\ OvIdle

annotateConfig == <<reader_pages, summary_json_path, summary_sentences, keyword_count,
                    position, note_width, note_height>>

otherVars == <<limit, kwVars, tsVars, boxVars, ovVars>>

\* page.extract_text() or "" for the next page of the comprehension; an
\* exception of extract_text leaves annotate_pdf.
ExtractPage ==
    /\ pc = "extract"
    /\ page_index <= Len(reader_pages)
    /\ LET outcome == reader_pages[page_index].extract
       IN  IF outcome.kind = "error"
           THEN /\ pc' = "raised"
                /\ events' = Append(events, "raise")
                /\ UNCHANGED <<page_texts, page_index>>
           ELSE /\ page_texts' = Append(page_texts,
                                        IF outcome.kind = "none" THEN <<>> ELSE outcome.text)
                /\ page_index' = page_index + 1
                /\ events' = Append(events, "extract_text")
                /\ pc' = pc
    /\ UNCHANGED <<annotateConfig, summary, writer_pages, output_pdf, otherVars>>

Summarize ==
    /\ pc = "extract"
    /\ page_index > Len(reader_pages)
    /\ summary' = build_summary(page_texts, summary_sentences, keyword_count)
    /\ events' = Append(events, "build_summary")
    /\ pc' = "write_markdown"
    /\ UNCHANGED <<annotateConfig, page_texts, page_index, writer_pages, output_pdf,
                   otherVars>>

WriteMarkdown ==
    /\ pc = "write_markdown"
    /\ events' = Append(events, "write_markdown")
    /\ pc' = "write_json"
    /\ UNCHANGED <<annotateConfig, page_texts, summary, page_index, writer_pages,
                   output_pdf, otherVars>>

\* write_json returns at once when no path was given.
WriteJson ==
    /\ pc = "write_json"
    /\ events' = IF summary_json_path = "none" THEN events
                 ELSE Append(events, "write_json")
    /\ pc' = "render"
    /\ page_index' = 1
    /\ UNCHANGED <<annotateConfig, page_texts, summary, writer_pages, output_pdf,
                   otherVars>>

\* One iteration of the loop over reader.pages: render the overlay, merge it
\* onto the page, add the page to the writer.
RenderPage ==
    /\ pc = "render"
    /\ page_index <= Len(reader_pages)
    /\ LET page == reader_pages[page_index]
           note == summary.page_notes[page_index]
       IN  writer_pages' =
               Append(writer_pages,
                      [kind |-> "merged",
                       source |-> page_index,
                       width |-> page.width,
                       height |-> page.height,
                       overlay |-> page_overlay(page, page_index, note, position,
                                                note_width, note_height)])
    /\ events' = Append(events, "render_overlay")
    /\ page_index' = page_index + 1
    /\ pc' = pc
    /\ UNCHANGED <<annotateConfig, page_texts, summary, output_pdf, otherVars>>

\* Mutant: the summary page takes the size of the last page.
AddSummaryPageSizedToLast ==
    /\ pc = "render"
    /\ page_index > Len(reader_pages)
    /\ IF reader_pages # <<>>
       THEN /\ writer_pages' =
                   Append(writer_pages,
                          [kind |-> "summary",
                           source |-> 0,
                           width |-> reader_pages[Len(reader_pages)].width,
                           height |-> reader_pages[Len(reader_pages)].height,
                           overlay |-> [overall_summary |-> summary.overall_summary,
                                        key_points |-> summary.key_points]])
            /\ events' = Append(events, "render_summary_page")
       ELSE UNCHANGED <<writer_pages, events>>
    /\ pc' = "write_pdf"
    /\ UNCHANGED <<annotateConfig, page_texts, summary, page_index, output_pdf,
                   otherVars>>

\* if reader.pages: render the summary page in the first page's size and add
\* it to the writer.
AddSummaryPage ==
    /\ pc = "render"
    /\ page_index > Len(reader_pages)
    /\ IF reader_pages # <<>>
       THEN /\ writer_pages' =
                   Append(writer_pages,
                          [kind |-> "summary",
                           source |-> 0,
                           width |-> reader_pages[1].width,
                           height |-> reader_pages[1].height,
                           overlay |-> [overall_summary |-> summary.overall_summary,
                                        key_points |-> summary.key_points]])
            /\ events' = Append(events, "render_summary_page")
       ELSE UNCHANGED <<writer_pages, events>>
    /\ pc' = "write_pdf"
    /\ UNCHANGED <<annotateConfig, page_texts, summary, page_index, output_pdf,
                   otherVars>>

WritePdf ==
    /\ pc = "write_pdf"
    /\ output_pdf' = writer_pages
    /\ events' = Append(events, "write_pdf")
    /\ pc' = "done"
    /\ UNCHANGED <<annotateConfig, page_texts, summary, page_index, writer_pages,
                   otherVars>>

NextAnnotate ==
    \/ ExtractPage
    \/ Summarize
    \/ WriteMarkdown
    \/ WriteJson
    \/ RenderPage
    \/ AddSummaryPage
    \/ WritePdf

SpecAnnotate == InitAnnotate /\ [][NextAnnotate]_vars

\* C7: the written output holds, in order, the n input pages, each merged
\* with the overlay made for it (its own page number in the title, its own
\* page note, its own page size), then exactly one summary page in the first
\* input page's size when n >= 1 and nothing when n = 0; and the writer never
\* holds the summary page before all n pages.
C7_OutputPages ==
    LET n == Len(reader_pages)
    IN  /\ \A j \in DOMAIN writer_pages :
            writer_pages[j].kind = "summary" =>
                /\ j = n + 1
                /\ \A i \in 1..n : writer_pages[i].kind = "merged"
        /\ pc = "done" =>
            /\ Len(output_pdf) = IF n >= 1 THEN n + 1 ELSE 0
            /\ \A i \in 1..n :
                /\ output_pdf[i].kind = "merged"
                /\ output_pdf[i].source = i
                /\ output_pdf[i].overlay.title[2] = i
                /\ output_pdf[i].overlay.body.summary = summary.page_notes[i].summary
                /\ summary.page_notes[i].page = i
                /\ output_pdf[i].overlay.pagesize
                       = <<reader_pages[i].width, reader_pages[i].height>>
            /\ n >= 1 =>
                /\ output_pdf[n + 1].kind = "summary"
                /\ output_pdf[n + 1].width = reader_pages[1].width
                /\ output_pdf[n + 1].height = reader_pages[1].height

\* Two pages of different sizes: the summary page takes the first one's.
C7_Witness ==
    /\ pc = "done"
    /\ Len(reader_pages) = 2
    /\ reader_pages[1].width # reader_pages[2].width
    /\ Len(output_pdf) = 3
    /\ output_pdf[3].kind = "summary"
    /\ output_pdf[3].width = reader_pages[1].width

\* C8: the stages run in the order extraction, summarization, rendering,
\* export: no Markdown or JSON summary is written before every page overlay
\* and the summary page have been rendered.
C8_AsClaimed ==
    ("write_markdown" \in Range(events) \/ "write_json" \in Range(events))
        => pc \in {"write_pdf", "done"}

\* C9: a page whose extraction fails (the backend returns None or raises) is
\* treated as an empty text: the failure does not leave annotate_pdf, and the
\* page still gets the sentinel note and an overlay.
C9_AsClaimed ==
    /\ pc # "raised"
    /\ pc = "done" =>
        \A i \in DOMAIN reader_pages :
            reader_pages[i].extract.kind # "text" =>
                /\ summary.page_notes[i].summary = NoExtractableText
                /\ output_pdf[i].kind = "merged"

====
